---- MODULE Spec2Model ----
(***************************************************************************)
(* pokemon_api: the relational catalog (type, move, generation, pokemon    *)
(* and the two association tables), the ingestion run of                   *)
(* web/lifetime.py and the CRUD handlers of web/api/pokemons/views.py.     *)
(*                                                                         *)
(* Every worker (an ingestion run or a request handler) works through its  *)
(* own AsyncSession.  A worker's step is the code between two suspension   *)
(* points that matter to the store: the select loop of a resolver, the     *)
(* commit that ends it, an upstream fetch.  Rows added to a session are    *)
(* visible to that session's own selects (autoflush) and to the other      *)
(* workers from the commit on (PostgreSQL READ COMMITTED).                  *)
(***************************************************************************)
EXTENDS Integers, Sequences, FiniteSets, TLC

VARIABLES types, moves, generations, pokemons, pc, op, status, req, idx, loc,
          runs, requests, listings, page

vars == <<types, moves, generations, pokemons, pc, op, status, req, idx, loc,
          runs, requests, listings, page>>
db == <<types, moves, generations, pokemons>>
count == <<runs, requests>>
\* The listing fetches the current run has issued, and the last response:
\* "none" before the first, "failed", or the page's "next" cursor, "null" or
\* "url".
pages == <<listings, page>>

\* ------------------------------------------------------------------ bounds
\* Ingestion runs started, and requests received, in one behaviour.
MaxRuns == 1
MaxRequests == 2

\* The worker that runs populate_database and the one that serves requests;
\* they run concurrently, each through sessions of its own.
Runner == "runner"
Handler == "handler"
Procs == {Runner, Handler}

Range(s) == {s[i] : i \in DOMAIN s}

\* ------------------------------------------------- the upstream catalog
\* GET /pokemon?limit=..: the summary entries of the first page.
Listing == <<1, 2>>

\* The candidate moves of the odd creatures: more than the cap of 4.
ManyMoves == <<"cut", "cut", "cut", "cut", "surf">>

\* complete_detail = {**detail_data, **species_data} for the entry with this id.
\* Odd creatures have two types and five candidate moves, even ones share the
\* first type and have one move.
Upstream(i) ==
    [id |-> i,
     name |-> "bulbasaur",
     images |-> "sprites",
     types |-> IF i % 2 = 1 THEN <<"grass", "poison">> ELSE <<"grass">>,
     hasMoves |-> TRUE,
     moves |-> IF i % 2 = 1 THEN ManyMoves ELSE <<"cut">>,
     is_legendary |-> (i % 2 = 0),
     generation |-> "generation-i"]

\* GET generation_dict["url"]: {id, main_region: {name}}.
GenerationPayload(name) == [id |-> 1, region |-> "kanto"]

\* PokeGeneration(name=generation_name, id=generation_data["id"],
\* region=generation_data["main_region"]["name"]).
\* Mutant: the region is not taken from the payload.
GenerationRowNoRegion(name, d) == [id |-> d.id, name |-> name, region |-> name]
GenerationRow(name, d) == [id |-> d.id, name |-> name, region |-> d.region]

\* --------------------------------------------------------------- tables
\* type and move: the row with id i is the i-th entry, holding its name.
\* Rows of these tables are never removed (see delete_pokemon_type), so the
\* serial ids are 1..Len.
\*
\* The association tables have no key: the rows of one creature are a bag of
\* sub-entity ids, one row per entry of the relationship list.
Rows(list) ==
    [x \in Range(list) |-> Cardinality({i \in DOMAIN list : list[i] = x})]

\* Number of association rows in such a bag.
RECURSIVE RowCount(_)
RowCount(bag) ==
    IF DOMAIN bag = {} THEN 0
    ELSE LET x == CHOOSE y \in DOMAIN bag : TRUE
         IN  bag[x] + RowCount([y \in DOMAIN bag \ {x} |-> bag[y]])

\* The pokemon row and its association rows, as the flush of a new Pokemon
\* writes them.
\* Mutant: the move association rows are not written.
PokemonRowNoMoves(r, type_instances, move_instances, generation_id) ==
    [name |-> r.name,
     images |-> r.images,
     is_legendary |-> r.is_legendary,
     generation_id |-> generation_id,
     types |-> Rows(type_instances),
     moves |-> Rows(<<>>)]
PokemonRow(r, type_instances, move_instances, generation_id) ==
    [name |-> r.name,
     images |-> r.images,
     is_legendary |-> r.is_legendary,
     generation_id |-> generation_id,
     types |-> Rows(type_instances),
     moves |-> Rows(move_instances)]

\* select(...).filter_by(name=name) ... .scalars().first() on a name table:
\* the id of the first row with that name, 0 for None.
first_by_name(table, name) ==
    IF \E i \in DOMAIN table : table[i] = name
    THEN CHOOSE i \in DOMAIN table :
            table[i] = name /\ \A j \in 1..(i - 1) : table[j] # name
    ELSE 0

\* A row added earlier in the same session has been flushed by the autoflush
\* that precedes each select, so the select finds it.  Mutant: no autoflush.
no_autoflush(pend, name) == 0
find_flushed(pend, name) == first_by_name(pend, name)

\* The loop of get_type / get_moves over the names: refs[i] is the id of the
\* row found for names[i], or -k for the k-th row this session added.
RECURSIVE resolve(_, _, _, _)
resolve(table, names, refs, pend) ==
    IF names = <<>> THEN [refs |-> refs, pend |-> pend]
    ELSE LET n == Head(names)
             i == first_by_name(table, n)
             k == find_flushed(pend, n)
         IN  IF i # 0 THEN resolve(table, Tail(names), Append(refs, i), pend)
             ELSE IF k # 0
                  THEN resolve(table, Tail(names), Append(refs, 0 - k), pend)
                  ELSE resolve(table, Tail(names),
                               Append(refs, 0 - (Len(pend) + 1)), Append(pend, n))

\* unique=True on the name column: writing the names of pend fails when
\* another committed row, or another written row, holds one of them.
\* Mutant: the column without its unique constraint.
no_unique(taken, pend) == FALSE
unique_violation(taken, pend) ==
    \/ \E k \in DOMAIN pend : pend[k] \in taken
    \/ \E k, l \in DOMAIN pend : k # l /\ pend[k] = pend[l]

\* The instances after the commit: the added rows got the next serial ids.
instances(table, refs) ==
    [i \in DOMAIN refs |-> IF refs[i] > 0 THEN refs[i] ELSE Len(table) - refs[i]]

\* ------------------------------------------------------- move selection
MoveCap == 4

\* len(moves) > 4.  Mutant: an off-by-one threshold.
needs_sample_off(n) == n > MoveCap + 1
needs_sample(n) == n > MoveCap

\* random.sample(moves, 4): four distinct positions, in any order.
Picks(n) ==
    {f \in [1..MoveCap -> 1..n] : \A i, j \in 1..MoveCap : i # j => f[i] # f[j]}

\* selected_moves: the sample, or the whole list when it is short.  A
\* candidate is represented by its name.
selected_moves(move_data) ==
    IF needs_sample(Len(move_data))
    THEN {[i \in 1..MoveCap |-> move_data[f[i]]] : f \in Picks(Len(move_data))}
    ELSE {move_data}

\* moves = [mv["name"] for mv in selected_moves]: the names handed to
\* get_moves.  Mutant: the names of all the candidates.
candidate_names(move_data, selected) == move_data
move_names(move_data, selected) == selected

\* ---------------------------------------------------------------- workers
NoReq ==
    [id |-> 0, name |-> "", images |-> "", types |-> <<>>, hasMoves |-> FALSE,
     moves |-> <<>>, is_legendary |-> FALSE, generation |-> ""]

NoLoc ==
    [tRefs |-> <<>>, tPend |-> <<>>, type_instances |-> <<>>,
     sel |-> <<>>, mRefs |-> <<>>, mPend |-> <<>>, move_instances |-> <<>>,
     gFetches |-> 0, gNew |-> {}, generation_id |-> 0]

Init ==
    /\ types = <<>>
    /\ moves = <<>>
    /\ generations = {}
    /\ pokemons = <<>>
    /\ pc = [p \in Procs |-> "idle"]
    /\ op = [p \in Procs |-> "none"]
    /\ status = [p \in Procs |-> "none"]
    /\ req = [p \in Procs |-> NoReq]
    /\ idx = [p \in Procs |-> 0]
    /\ loc = [p \in Procs |-> NoLoc]
    /\ runs = 0
    /\ requests = 0
    /\ listings = 0
    /\ page = "none"

\* The handler (or the run) ends with this status: "ok" when it returns, else
\* the HTTPException or the unhandled exception that left it.  Its session
\* closes and its locals are gone.
Ends(p, st) ==
    /\ pc' = [pc EXCEPT ![p] = "done"]
    /\ status' = [status EXCEPT ![p] = st]
    /\ loc' = [loc EXCEPT ![p] = NoLoc]

\* The worker goes on to the next step, with these locals.
Goes(p, to, locals) ==
    /\ pc' = [pc EXCEPT ![p] = to]
    /\ status' = [status EXCEPT ![p] = "running"]
    /\ loc' = [loc EXCEPT ![p] = locals]

\* A worker is free before its first operation and after each one; the
\* status and the request of the last operation stay until the next starts.
Free(p) == pc[p] \in {"idle", "done"}

\* ------------------------------------------------------------ ingestion
\* client.get(poke_url) / response.json() of the listing fails: nothing
\* catches the exception, which leaves the while loop and populate_database.
\* Mutant: the failure is ignored and the run goes on to the entries.
ListingIgnored(p) ==
    /\ page' = "failed"
    /\ idx' = [idx EXCEPT ![p] = 1]
    /\ Goes(p, "detail", NoLoc)
ListingFails(p) ==
    /\ page' = "failed"
    /\ idx' = [idx EXCEPT ![p] = 0]
    /\ Ends(p, "fetch_error")

\* The listing page arrives, with some "next" cursor; the for loop starts at
\* its first entry.
ListingArrives(p) ==
    \E next \in {"null", "url"} :
        /\ page' = next
        /\ idx' = [idx EXCEPT ![p] = 1]
        /\ IF Listing = <<>> THEN Goes(p, "next_page", NoLoc)
           ELSE Goes(p, "detail", NoLoc)

\* populate_database up to the response of its first listing fetch.
populate_database(p) ==
    /\ p = Runner
    /\ Free(p)
    /\ runs < MaxRuns
    /\ runs' = runs + 1
    /\ listings' = 1
    /\ op' = [op EXCEPT ![p] = "ingest"]
    /\ req' = [req EXCEPT ![p] = NoReq]
    /\ \/ ListingFails(p)
       \/ ListingArrives(p)
    /\ UNCHANGED <<db, requests>>

\* The end of the while body: poke_url = data.get("next"), then, after the
\* sleep, poke_url = False.  Mutant: the second assignment removed.
cursor_kept(next) == next = "url"
poke_url(next) == FALSE

\* The while loop after the entries of a page: `while poke_url` fetches the
\* next listing page or leaves the loop, and populate_database returns.
next_page(p) ==
    /\ pc[p] = "next_page"
    /\ IF poke_url(page)
       THEN /\ listings' = listings + 1
            /\ \/ ListingFails(p)
               \/ ListingArrives(p)
       ELSE /\ Ends(p, "ok")
            /\ UNCHANGED <<idx, pages>>
    /\ UNCHANGED <<db, op, req, count>>

\* The detail and species fetches of one entry and lines 131-134 of
\* save_pokemon: a failed fetch or a payload without a required key raises.
fetch_detail(p) ==
    /\ pc[p] = "detail"
    /\ \/ /\ Ends(p, "fetch_error")
          /\ req' = [req EXCEPT ![p] = NoReq]
       \/ /\ Ends(p, "key_error")
          /\ req' = [req EXCEPT ![p] = NoReq]
       \/ /\ req' = [req EXCEPT ![p] = Upstream(Listing[idx[p]])]
          /\ Goes(p, "get_type", NoLoc)
    /\ UNCHANGED <<db, op, idx, count, pages>>

\* ------------------------------------------------------------ resolvers
\* get_type, the select loop.
get_type_lookup(p) ==
    /\ pc[p] = "get_type"
    /\ LET r == resolve(types, req[p].types, <<>>, <<>>)
       IN  Goes(p, "get_type_commit",
                [loc[p] EXCEPT !.tRefs = r.refs, !.tPend = r.pend])
    /\ UNCHANGED <<db, op, req, idx, count, pages>>

\* get_type, session.commit(): the added rows are inserted, or the insert
\* hits the unique constraint and the IntegrityError leaves get_type.
get_type_commit(p) ==
    /\ pc[p] = "get_type_commit"
    /\ IF unique_violation(Range(types), loc[p].tPend)
       THEN /\ Ends(p, "unique_violation")
            /\ UNCHANGED types
       ELSE /\ types' = types \o loc[p].tPend
            /\ Goes(p, IF op[p] = "update" THEN "update_apply" ELSE "get_moves",
                    [loc[p] EXCEPT
                       !.type_instances = instances(types, loc[p].tRefs),
                       !.tRefs = <<>>])
    /\ UNCHANGED <<moves, generations, pokemons, op, req, idx, count, pages>>

\* The move selection and get_moves, the select loop.  len(None) raises in
\* create_pokemon when the request has no "moves".
get_moves_lookup(p) ==
    /\ pc[p] = "get_moves"
    /\ IF ~req[p].hasMoves
       THEN Ends(p, "type_error")
       ELSE \E s \in selected_moves(req[p].moves) :
               LET r == resolve(moves, move_names(req[p].moves, s), <<>>, <<>>)
               IN  Goes(p, "get_moves_commit",
                        [loc[p] EXCEPT !.sel = s, !.mRefs = r.refs,
                                       !.mPend = r.pend])
    /\ UNCHANGED <<db, op, req, idx, count, pages>>

\* get_moves, session.commit().
get_moves_commit(p) ==
    /\ pc[p] = "get_moves_commit"
    /\ IF unique_violation(Range(moves), loc[p].mPend)
       THEN /\ Ends(p, "unique_violation")
            /\ UNCHANGED moves
       ELSE /\ moves' = moves \o loc[p].mPend
            /\ Goes(p, IF op[p] = "ingest" THEN "get_generation" ELSE "commit_pokemon",
                    [loc[p] EXCEPT
                       !.move_instances = instances(moves, loc[p].mRefs),
                       !.mRefs = <<>>, !.sel = <<>>])
    /\ UNCHANGED <<types, generations, pokemons, op, req, idx, count, pages>>

\* get_generation_by_url, the select: an existing row is returned (the commit
\* has nothing to write), a missing one is fetched.
get_generation_lookup(p) ==
    /\ pc[p] = "get_generation"
    /\ LET found == {g \in generations : g.name = req[p].generation}
       IN  IF found # {}
           THEN Goes(p, "commit_pokemon",
                     [loc[p] EXCEPT
                        !.generation_id = (CHOOSE g \in found : TRUE).id])
           ELSE Goes(p, "generation_fetch", loc[p])
    /\ UNCHANGED <<db, op, req, idx, count, pages>>

\* client.get(generation_dict["url"]): the secondary fetch; gFetches counts
\* the fetches of this call.
generation_fetch(p) ==
    /\ pc[p] = "generation_fetch"
    /\ \/ Ends(p, "fetch_error")
       \/ LET d == GenerationPayload(req[p].generation)
          IN  Goes(p, "get_generation_commit",
                   [loc[p] EXCEPT !.gFetches = @ + 1,
                                  !.gNew = {GenerationRow(req[p].generation, d)}])
    /\ UNCHANGED <<db, op, req, idx, count, pages>>

\* get_generation_by_url, session.commit(): the primary key (id) and the
\* unique name decide the insert.
get_generation_commit(p) ==
    /\ pc[p] = "get_generation_commit"
    /\ LET g == CHOOSE x \in loc[p].gNew : TRUE
       IN  IF \E h \in generations : h.name = g.name \/ h.id = g.id
           THEN /\ Ends(p, "unique_violation")
                /\ UNCHANGED generations
           ELSE /\ generations' = generations \cup {g}
                /\ Goes(p, "commit_pokemon", [loc[p] EXCEPT !.generation_id = g.id])
    /\ UNCHANGED <<types, moves, pokemons, op, req, idx, count, pages>>

\* Pokemon(...), session.add, session.commit of save_pokemon and of
\* create_pokemon: an unconditional INSERT, which the primary key refuses
\* when the id is taken.  The run then goes on to the next entry, or to the
\* end of the while body.
commit_pokemon(p) ==
    /\ pc[p] = "commit_pokemon"
    /\ IF req[p].id \in DOMAIN pokemons
       THEN /\ Ends(p, "pk_violation")
            /\ UNCHANGED <<pokemons, idx>>
       ELSE /\ pokemons' =
                 [i \in DOMAIN pokemons \cup {req[p].id} |->
                    IF i = req[p].id
                    THEN PokemonRow(req[p], loc[p].type_instances,
                                    loc[p].move_instances, loc[p].generation_id)
                    ELSE pokemons[i]]
            /\ IF op[p] = "ingest" /\ idx[p] < Len(Listing)
               THEN /\ idx' = [idx EXCEPT ![p] = idx[p] + 1]
                    /\ Goes(p, "detail", NoLoc)
               ELSE /\ UNCHANGED idx
                    /\ IF op[p] = "ingest" THEN Goes(p, "next_page", NoLoc)
                       ELSE Ends(p, "ok")
    /\ UNCHANGED <<types, moves, generations, op, req, count, pages>>

\* ------------------------------------------------------------- requests
TypeNames == {"grass", "poison"}

Body(i, n, im, t, hm, m) ==
    [id |-> i, name |-> n, images |-> im, types |-> t, hasMoves |-> hm,
     moves |-> m, is_legendary |-> FALSE, generation |-> ""]

\* Bodies of POST /pokemon: a complete one with five candidate moves, one
\* without "moves", one without "name".
CreateBodies ==
    {Body(2, "pikachu", "art", <<"poison">>, TRUE, ManyMoves),
     Body(2, "pikachu", "art", <<"poison">>, FALSE, <<>>),
     Body(2, "", "art", <<"poison">>, TRUE, <<"cut">>)}

\* Bodies of PUT /pokemon/2: none of name, images and types given, or some
\* (an absent, null or empty value is the falsy "" or <<>>).
UpdateBodies ==
    {Body(2, "", "", <<>>, FALSE, <<>>),
     Body(2, "raichu", "", <<>>, FALSE, <<>>),
     Body(2, "", "", <<"poison">>, FALSE, <<>>),
     Body(2, "raichu", "shiny", <<"poison">>, FALSE, <<>>)}

\* A request arrives at the free handler.
Receives(p, o, r) ==
    /\ p = Handler
    /\ Free(p)
    /\ requests < MaxRequests
    /\ requests' = requests + 1
    /\ op' = [op EXCEPT ![p] = o]
    /\ req' = [req EXCEPT ![p] = r]
    /\ UNCHANGED <<idx, runs, pages>>

\* POST /pokemon up to the check of the required data.
create_pokemon(p) ==
    \E r \in CreateBodies :
        /\ Receives(p, "create", r)
        /\ IF r.id = 0 \/ r.name = "" \/ r.types = <<>> \/ r.images = ""
           THEN Ends(p, "bad_request")
           ELSE Goes(p, "get_type", NoLoc)
        /\ UNCHANGED db

\* PUT /pokemon/{id} up to the resolution of the given types.
update_pokemon(p) ==
    \E r \in UpdateBodies :
        /\ Receives(p, "update", r)
        /\ Goes(p, IF r.types # <<>> THEN "get_type" ELSE "update_apply", NoLoc)
        /\ UNCHANGED db

\* PUT /pokemon/{id} from the select of the creature to the commit.
\* type_instances is unbound when no types were given.
update_apply(p) ==
    /\ pc[p] = "update_apply"
    /\ LET i == req[p].id
       IN  IF i \notin DOMAIN pokemons
           THEN /\ Ends(p, "not_found")
                /\ UNCHANGED pokemons
           ELSE IF req[p].types = <<>>
                THEN /\ Ends(p, "unbound_local")
                     /\ UNCHANGED pokemons
                ELSE /\ pokemons' = [pokemons EXCEPT
                          ![i].name = IF req[p].name # "" THEN req[p].name ELSE @,
                          ![i].types = Rows(loc[p].type_instances),
                          ![i].images = IF req[p].images # "" THEN req[p].images ELSE @]
                     /\ Ends(p, "ok")
    /\ UNCHANGED <<types, moves, generations, op, req, idx, count, pages>>

\* DELETE /pokemon/{id}.  AsyncSession.delete is a coroutine function and the
\* handler does not await it: nothing is marked deleted, the commit writes
\* nothing and the message is returned.
delete_pokemon(p) ==
    \E i \in {2} :
        /\ Receives(p, "delete", [NoReq EXCEPT !.id = i])
        /\ IF i \notin DOMAIN pokemons THEN Ends(p, "not_found") ELSE Ends(p, "ok")
        /\ UNCHANGED db

\* POST /pokemon/types: an unconditional INSERT.
create_pokemon_type(p) ==
    \E n \in TypeNames :
        /\ Receives(p, "create_type", [NoReq EXCEPT !.name = n])
        /\ IF unique_violation(Range(types), <<n>>)
           THEN /\ Ends(p, "unique_violation")
                /\ UNCHANGED types
           ELSE /\ types' = Append(types, n)
                /\ Ends(p, "ok")
        /\ UNCHANGED <<moves, generations, pokemons>>

\* PUT /pokemon/types/{type_id}.
update_pokemon_type(p) ==
    \E i \in {1}, n \in TypeNames :
        /\ Receives(p, "update_type", [NoReq EXCEPT !.id = i, !.name = n])
        /\ IF i \notin DOMAIN types
           THEN /\ Ends(p, "not_found")
                /\ UNCHANGED types
           ELSE IF unique_violation({types[j] : j \in DOMAIN types \ {i}}, <<n>>)
                THEN /\ Ends(p, "unique_violation")
                     /\ UNCHANGED types
                ELSE /\ types' = [types EXCEPT ![i] = n]
                     /\ Ends(p, "ok")
        /\ UNCHANGED <<moves, generations, pokemons>>

\* DELETE /pokemon/types/{type_id}: the delete is not awaited either.
delete_pokemon_type(p) ==
    \E i \in {1} :
        /\ Receives(p, "delete_type", [NoReq EXCEPT !.id = i])
        /\ IF i \notin DOMAIN types THEN Ends(p, "not_found") ELSE Ends(p, "ok")
        /\ UNCHANGED db

Next ==
    \E p \in Procs :
        \/ populate_database(p)
        \/ fetch_detail(p)
        \/ get_type_lookup(p)
        \/ get_type_commit(p)
        \/ get_moves_lookup(p)
        \/ get_moves_commit(p)
        \/ get_generation_lookup(p)
        \/ generation_fetch(p)
        \/ get_generation_commit(p)
        \/ commit_pokemon(p)
        \/ next_page(p)
        \/ create_pokemon(p)
        \/ update_pokemon(p)
        \/ update_apply(p)
        \/ delete_pokemon(p)
        \/ create_pokemon_type(p)
        \/ update_pokemon_type(p)
        \/ delete_pokemon_type(p)

Spec == Init /\ [][Next]_vars

\* The event loop resumes the run when its asyncio.sleep(1) at the end of the
\* while body is over: that step is not postponed for ever.
FairSpec == Spec /\ WF_vars(next_page(Runner))

\* ------------------------------------------- the move selection, alone
\* Candidate lists of POST /pokemon: every list of at most MaxLen names.
MaxLen == 5
SelectNames == {"cut", "surf", "fly", "dig", "growl"}
Candidates == UNION {[1..n -> SelectNames] : n \in 0..MaxLen}

\* create_pokemon has resolved its one type and is about to select the moves
\* of the body.
InitSelect ==
    /\ types = <<"poison">>
    /\ moves = <<>>
    /\ generations = {}
    /\ pokemons = <<>>
    /\ \E m \in Candidates :
          req = [p \in Procs |->
                   IF p = Handler
                   THEN Body(2, "pikachu", "art", <<"poison">>, TRUE, m)
                   ELSE NoReq]
    /\ pc = [p \in Procs |-> IF p = Handler THEN "get_moves" ELSE "idle"]
    /\ op = [p \in Procs |-> IF p = Handler THEN "create" ELSE "none"]
    /\ status = [p \in Procs |-> IF p = Handler THEN "running" ELSE "none"]
    /\ idx = [p \in Procs |-> 0]
    /\ loc = [p \in Procs |->
                IF p = Handler THEN [NoLoc EXCEPT !.type_instances = <<1>>]
                ELSE NoLoc]
    /\ runs = 0
    /\ requests = 1
    /\ listings = 0
    /\ page = "none"

NextSelect == \E p \in Procs : get_moves_lookup(p)

SpecSelect == InitSelect /\ [][NextSelect]_vars

\* ================================================================ claims
\* The step worker p takes from pc value `from` (no two workers step at once).
Step(p, from) == pc[p] = from /\ pc'[p] # from

NoDuplicates(table) ==
    \A i, j \in DOMAIN table : i # j => table[i] # table[j]

ResolvedOnce(table, names, refs, pend) ==
    /\ Len(refs) = Len(names)
    /\ NoDuplicates(pend)
    /\ \A i \in DOMAIN names :
          IF names[i] \in Range(table)
          THEN refs[i] > 0 /\ table[refs[i]] = names[i]
                           /\ names[i] \notin Range(pend)
          ELSE refs[i] < 0 /\ pend[0 - refs[i]] = names[i]
    /\ \A i, j \in DOMAIN names : names[i] = names[j] => refs[i] = refs[j]

\* C2: resolving the same name twice yields the same row: in the select loop
\* of get_type and of get_moves a repeated name, and a name an earlier
\* creature already brought in, resolve to one row, and the commit creates
\* exactly one row per added name and hands back the rows of these names.
C2_SameIdentity ==
    [][\A p \in Procs :
         /\ Step(p, "get_type") =>
               ResolvedOnce(types, req[p].types, loc'[p].tRefs, loc'[p].tPend)
         /\ Step(p, "get_moves") /\ pc'[p] # "done" =>
               ResolvedOnce(moves, loc'[p].sel, loc'[p].mRefs, loc'[p].mPend)
         /\ Step(p, "get_type_commit") /\ pc'[p] # "done" =>
               /\ Len(types') = Len(types) + Len(loc[p].tPend)
               /\ \A i \in DOMAIN req[p].types :
                     types'[loc'[p].type_instances[i]] = req[p].types[i]
         /\ Step(p, "get_moves_commit") /\ pc'[p] # "done" =>
               /\ Len(moves') = Len(moves) + Len(loc[p].mPend)
               /\ \A i \in DOMAIN loc[p].sel :
                     moves'[loc'[p].move_instances[i]] = loc[p].sel[i]
      ]_vars

\* Both creatures of the page are stored, they share a type row, and the
\* first holds several association rows to one move row (a name repeated in
\* one get_moves call).
C2_Witness ==
    /\ {1, 2} \subseteq DOMAIN pokemons
    /\ pokemons[2].generation_id # 0
    /\ DOMAIN pokemons[1].types \cap DOMAIN pokemons[2].types # {}
    /\ \E m \in DOMAIN pokemons[1].moves : pokemons[1].moves[m] > 1
    /\ NoDuplicates(moves)

\* C3: every creature row created by save_pokemon or by create_pokemon has
\* at most 4 move association rows (the rows are written at creation only).
C3_AtMostFourMoves ==
    \A i \in DOMAIN pokemons : RowCount(pokemons[i].moves) <= 4

\* An ingested creature and a posted one, both from five candidates, hold
\* four move rows each.
C3_Witness ==
    /\ {1, 2} \subseteq DOMAIN pokemons
    /\ pokemons[2].name = "pikachu"
    /\ RowCount(pokemons[1].moves) = 4
    /\ RowCount(pokemons[2].moves) = 4

\* C4 (as claimed): ingesting a creature whose id is already stored is an
\* upsert: the item does not fail on the primary key and one row with that
\* id is there afterwards.
C4_IngestIsUpsert ==
    [][\A p \in Procs :
         Step(p, "commit_pokemon") /\ op[p] = "ingest"
                                   /\ req[p].id \in DOMAIN pokemons =>
            /\ status'[p] # "pk_violation"
            /\ req[p].id \in DOMAIN pokemons'
      ]_vars

\* C5 (as claimed): once the page has arrived, a failing entry does not abort
\* the run: the run ends normally, after the last entry of the page.
C5_BatchContinues ==
    \A p \in Procs :
        op[p] = "ingest" /\ pc[p] = "done" /\ idx[p] >= 1 =>
            status[p] = "ok" /\ idx[p] = Len(Listing)

\* C6 (as claimed): a resolver that loses the race on a name recovers; the
\* unique-constraint violation never leaves save_pokemon, create_pokemon or
\* update_pokemon.
C6_ConflictRecovered ==
    \A p \in Procs :
        op[p] \in {"ingest", "create", "update"} => status[p] # "unique_violation"

\* The rows the resolvers of the current entry have committed so far.
ItemWrote(p) ==
    \/ /\ pc[p] \in {"get_moves", "get_moves_commit", "get_generation",
                     "generation_fetch", "get_generation_commit", "commit_pokemon"}
       /\ loc[p].tPend # <<>>
    \/ /\ pc[p] \in {"get_generation", "generation_fetch",
                     "get_generation_commit", "commit_pokemon"}
       /\ loc[p].mPend # <<>>
    \/ /\ pc[p] = "commit_pokemon"
       /\ loc[p].gNew # {}

\* The entry of the run fails at this step.
ItemFails(p) ==
    op[p] = "ingest" /\ pc[p] \notin {"idle", "done", "detail"}
                     /\ pc'[p] = "done" /\ status'[p] # "ok"

\* C7 (as claimed): save_pokemon is all-or-nothing: when a step of the entry
\* fails, nothing of the entry has been committed.
C7_AllOrNothing ==
    [][\A p \in Procs : ItemFails(p) => ~ItemWrote(p) /\ db' = db]_vars

\* C7 (amended): the creature row and all its type and move association rows
\* are written by the one final commit or not at all: no earlier step of the
\* entry writes them, and a failing step writes nothing.  The sub-entity rows
\* the resolvers committed before stay.
C7_AggregateAtomic ==
    [][\A p \in Procs : op[p] = "ingest" =>
         /\ ItemFails(p) => db' = db
         /\ \A from \in {"get_type", "get_type_commit", "get_moves",
                         "get_moves_commit", "get_generation", "generation_fetch",
                         "get_generation_commit"} :
               Step(p, from) => pokemons' = pokemons
         /\ Step(p, "commit_pokemon") /\ status'[p] # "pk_violation" =>
               LET i == req[p].id
               IN  /\ DOMAIN pokemons' = DOMAIN pokemons \cup {i}
                   /\ i \notin DOMAIN pokemons
                   /\ \A j \in DOMAIN pokemons : pokemons'[j] = pokemons[j]
                   /\ RowCount(pokemons'[i].types) = Len(req[p].types)
                   /\ RowCount(pokemons'[i].moves) = Len(loc[p].move_instances)
                   /\ DOMAIN pokemons'[i].types = Range(loc[p].type_instances)
                   /\ DOMAIN pokemons'[i].moves = Range(loc[p].move_instances)
                   /\ <<types', moves', generations'>> = <<types, moves, generations>>
      ]_vars

\* Alone in the system, the run failed at the generation fetch of its first
\* entry: the type and move rows of that entry are stored, no creature is.
C7_Witness ==
    /\ requests = 0
    /\ op["runner"] = "ingest" /\ status["runner"] = "fetch_error" /\ idx["runner"] = 1
    /\ Len(types) = 2
    /\ moves # <<>>
    /\ DOMAIN pokemons = {}

\* C8 (as claimed): PUT /pokemon/{id} on an existing creature is accepted
\* whatever fields it carries, and a field it does not carry keeps its value.
C8_PartialUpdate ==
    [][\A p \in Procs :
         Step(p, "update_apply") /\ req[p].id \in DOMAIN pokemons =>
            LET i == req[p].id
            IN  /\ status'[p] = "ok"
                /\ i \in DOMAIN pokemons'
                /\ req[p].name = "" => pokemons'[i].name = pokemons[i].name
                /\ req[p].images = "" => pokemons'[i].images = pokemons[i].images
                /\ req[p].types = <<>> => pokemons'[i].types = pokemons[i].types
      ]_vars

\* C9 (as claimed): when DELETE /pokemon/{id} returns its message, the
\* creature and its association rows are gone and the sub-entity rows stay.
C9_DeleteRemoves ==
    [][\A p \in Procs :
         requests' # requests /\ op'[p] = "delete" /\ status'[p] = "ok" =>
            /\ req'[p].id \notin DOMAIN pokemons'
            /\ <<types', moves', generations'>> = <<types, moves, generations>>
      ]_vars

\* C10: moves are sampled before they are resolved: the commit of get_moves
\* creates rows for names of the sample only, and every row it created is
\* associated with the creature when the creature is written.
C10_SampledOnly ==
    [][\A p \in Procs :
         /\ Step(p, "get_moves_commit") =>
               \A k \in (Len(moves) + 1)..Len(moves') :
                   moves'[k] \in Range(loc[p].sel)
         /\ Step(p, "commit_pokemon") /\ req[p].id \notin DOMAIN pokemons =>
               \A n \in Range(loc[p].mPend) :
                   first_by_name(moves, n) \in DOMAIN pokemons'[req[p].id].moves
      ]_vars

\* The first creature, of five candidates, holds four rows to the one move
\* of its sample; no row exists for the candidate left out.
C10_Witness ==
    /\ 1 \in DOMAIN pokemons
    /\ RowCount(pokemons[1].moves) = 4
    /\ moves = <<"cut">>

\* C11 (as claimed): from a candidate list of more than 4 entries the move
\* selection returns exactly 4 names, all different, each one a name of the
\* list; whatever the sample and whether or not the list repeats a name.
C11_FourDistinct ==
    [][\A p \in Procs :
         Step(p, "get_moves") /\ Len(req[p].moves) > 4 =>
            /\ Len(loc'[p].sel) = 4
            /\ Cardinality(Range(loc'[p].sel)) = 4
            /\ Range(loc'[p].sel) \subseteq Range(req[p].moves)
      ]_vars

\* C12: get_generation_by_url with a name that has a row returns that row,
\* fetching nothing and writing nothing; with a name that has no row it
\* fetches the reference's url exactly once and the row its commit stores has
\* the id and the region (main_region.name) of that payload.
C12_OneFetch ==
    [][\A p \in Procs :
         LET name == req[p].generation
             d == GenerationPayload(name)
         IN  /\ Step(p, "get_generation") =>
                   /\ loc'[p].gFetches = 0
                   /\ generations' = generations
                   /\ IF \E g \in generations : g.name = name
                      THEN /\ pc'[p] = "commit_pokemon"
                           /\ \E g \in generations :
                                 g.name = name /\ loc'[p].generation_id = g.id
                      ELSE pc'[p] = "generation_fetch"
             /\ Step(p, "generation_fetch") =>
                   /\ generations' = generations
                   /\ pc'[p] \in {"done", "get_generation_commit"}
                   /\ pc'[p] # "done" => loc'[p].gFetches = 1
             /\ Step(p, "get_generation_commit") /\ pc'[p] # "done" =>
                   /\ loc[p].gFetches = 1
                   /\ pc'[p] = "commit_pokemon"
                   /\ \A g \in generations : g.name # name
                   /\ generations' = generations \cup
                         {[id |-> d.id, name |-> name, region |-> d.region]}
                   /\ loc'[p].generation_id = d.id
      ]_vars

\* The second entry of the page found the row the first entry's call had
\* fetched and stored: it is about to be written with that row's id, and its
\* own call fetched nothing.
C12_Witness ==
    /\ pc["runner"] = "commit_pokemon"
    /\ idx["runner"] = 2
    /\ loc["runner"].gFetches = 0
    /\ loc["runner"].generation_id = 1
    /\ generations = {[id |-> 1, name |-> "generation-i", region |-> "kanto"]}
    /\ 1 \in DOMAIN pokemons /\ pokemons[1].generation_id = 1

\* C13: an ingestion run fetches exactly one listing page: whatever the
\* "next" cursor of the page, the step after the page's last entry issues no
\* listing fetch and ends the run, the only listing fetch of a run is the
\* one it starts with, and a run that has processed the entries of its page
\* does end.
C13_OnePage ==
    /\ [][/\ listings' <= 1
          /\ listings' # listings => runs' = runs + 1 /\ listings' = 1
          /\ \A p \in Procs :
               Step(p, "next_page") =>
                  /\ idx[p] = Len(Listing)
                  /\ pc'[p] = "done" /\ status'[p] = "ok"
                  /\ pages' = pages
                  /\ db' = db
         ]_vars
    /\ \A p \in Procs :
          (pc[p] = "next_page") ~> (pc[p] = "done" /\ status[p] = "ok" /\ listings = 1)

\* The page had a "next" cursor; the run stored both entries of the page and
\* returned, after one listing fetch.
C13_Witness ==
    /\ page = "url"
    /\ listings = 1
    /\ op["runner"] = "ingest" /\ pc["runner"] = "done" /\ status["runner"] = "ok"
    /\ DOMAIN pokemons = {1, 2}

\* C14: when the listing fetch of a run fails the run is over at once, with
\* the error: it fetches no entry's detail (it is at no entry and takes no
\* further step) and the failing step leaves every table as it was.
C14_ListingFatal ==
    [][\A p \in Procs :
         /\ listings' # listings /\ page' = "failed" /\ op'[p] = "ingest" =>
               /\ pc'[p] = "done" /\ status'[p] = "fetch_error"
               /\ db' = db
         /\ page' = "failed" /\ op'[p] = "ingest" =>
               /\ pc'[p] = "done"
               /\ idx'[p] = 0
               /\ req'[p] = NoReq
      ]_vars

\* The listing fetch failed while the store held the creature a request had
\* created; the run is over and that creature is all the store holds.
C14_Witness ==
    /\ page = "failed"
    /\ pc["runner"] = "done" /\ status["runner"] = "fetch_error"
    /\ DOMAIN pokemons = {2}
    /\ pokemons[2].name = "pikachu"
    /\ generations = {}

\* C15 (as claimed): a rejected CRUD mutation has written nothing: the step
\* that answers 400 (POST /pokemon) or 404 (PUT, DELETE /pokemon/{id}) leaves
\* every table as it is, and no earlier step of that request has committed a
\* row (a PUT for an id without a creature has created no type row).
C15_RejectedUnchanged ==
    [][\A p \in Procs :
         /\ op'[p] \in {"create", "update", "delete"}
         /\ pc[p] # "done" \/ requests' # requests
         /\ pc'[p] = "done"
         /\ status'[p] \in {"bad_request", "not_found"}
         => /\ db' = db
            /\ loc[p].tPend = <<>>
      ]_vars
====
